---- MODULE Spec2Model ----
(***************************************************************************)
(* SamvaadAI voice-interview core: the transcript reconciler and the       *)
(* session controller (frontend/src/hooks/useVapi.ts), the evaluation      *)
(* heuristic and the session orchestrator (pages/VapiInterview.tsx, kept   *)
(* as src/unnamed/part_001).                                               *)
(*                                                                         *)
(* Conventions of the model                                                *)
(*  - A text is a sequence of tokens: the token " " is one whitespace      *)
(*    character, any other token is a run of non-whitespace characters.    *)
(*  - Numbers that are fractions in the code (answeredRatio, the category  *)
(*    bases, the jitter) are kept exact as numerators over a stated        *)
(*    denominator; Math.round is floor(x + 1/2).                           *)
(*  - Math.random() is an input: a numerator k over RandDen, 0 <= k <      *)
(*    RandDen, one draw per category in call order.                        *)
(*  - A handler and the re-render of the state it set are one step: the   *)
(*    next event finds the page re-rendered. What a listener closed over   *)
(*    at an earlier render is kept with the call it belongs to.            *)
(***************************************************************************)
EXTENDS Integers, Sequences, FiniteSets, TLC

VARIABLES
    \* useVapi state (useVapi.ts 43-49)
    isCallActive, isMuted, isLoading, error, transcript,
    \* InterviewSession state (part_001 243-252)
    analysing, callStartTime, showConfirm, autoStarted, pendingNavRef,
    \* the route parameter, whether the interview state holds an interview, and
    \* the lookup in progress (part_001 241-246)
    id, interview, loading,
    \* the engine handle of the current render, and the calls placed so far
    vapiRef, calls, curCall,
    \* environment: the clock, the armed navigation timers
    now, navTimers,
    \* observations: calls made to the persistence gateway, navigations done,
    \* evaluations computed, the termination triggers that have run, the
    \* forceStop calls made in a row with what the last step asked of the
    \* engine and of the page's callbacks, and whether forceStop or the effect
    \* cleanup let an error out in the last step
    saved, saveStatus, navigated, evalCount, triggers, lastCmd, thrown,
    \* reconciler harness: the events delivered so far
    eventLog,
    \* evaluation harness: the inputs, the Math.random() draws and the result
    \* of evaluateTranscript
    evalEntries, evalQc, evalRnd, evaluation

vars == <<isCallActive, isMuted, isLoading, error, transcript,
          analysing, callStartTime, showConfirm, autoStarted, pendingNavRef,
          vapiRef, calls, curCall, now, navTimers,
          saved, saveStatus, navigated, evalCount, triggers, lastCmd, thrown,
          id, interview, loading,
          eventLog, evalEntries, evalQc, evalRnd, evaluation>>

----------------------------------------------------------------------------
(* Bounds *)

MaxEvents == 4
MaxEvalLen == 2
MaxQ == 5
RandDen == 12
MaxCalls == 1
MaxTicks == 1
MaxEntries == 1

----------------------------------------------------------------------------
(* Generic helpers *)

Max(a, b) == IF a >= b THEN a ELSE b
Min(a, b) == IF a <= b THEN a ELSE b

Range(s) == {s[i] : i \in 1..Len(s)}

RECURSIVE SumSeq(_)
SumSeq(s) == IF s = <<>> THEN 0 ELSE Head(s) + SumSeq(Tail(s))

\* Array.prototype.findIndex, 1-based, given the set of indexes that match;
\* 0 when nothing matches (JS: -1)
FindIndex(matching) ==
    IF matching = {} THEN 0
    ELSE CHOOSE i \in matching : \A j \in matching : i <= j

----------------------------------------------------------------------------
(* Texts *)

Roles == {"assistant", "user"}

\* String.prototype.trim() leaves nothing
IsBlank(text) == \A i \in 1..Len(text) : text[i] = " "

\* text.split(/\s+/).length: one more than the number of whitespace runs
SplitCount(text) ==
    1 + Cardinality({i \in 1..Len(text) :
                        text[i] = " " /\ (i = 1 \/ text[i-1] # " ")})

\* a text of n one-letter words separated by single spaces
RECURSIVE Words(_)
Words(n) == IF n = 0 THEN <<>>
            ELSE IF n = 1 THEN <<"a">>
            ELSE Words(n - 1) \o <<" ", "a">>

EmptyText == <<>>
BlankText == <<" ">>
HiThereIThink == <<"Hi", " ", "there", " ", "I", " ", "think">>
HiThereIThinkIAmReady == HiThereIThink \o <<" ", "I", " ", "am", " ", "ready">>
GoAhead == <<"Go", " ", "ahead">>

----------------------------------------------------------------------------
(* TranscriptReconciler: the "message" listener of useVapi (useVapi.ts 75-108) *)

NoTime == 0
InitNow == 1000

\* messages the engine can deliver; a field the engine leaves out is the
\* empty text (both are falsy for `message.transcript || message.text || ""`)
Messages ==
    [type : {"transcript"}, role : {"user"},
     transcript : {HiThereIThink, HiThereIThinkIAmReady},
     text : {EmptyText}, transcriptType : {"partial", "final"}]
    \cup
    [type : {"transcript"}, role : {"assistant"},
     transcript : {GoAhead, HiThereIThink},
     text : {EmptyText}, transcriptType : {"partial", "final"}]
    \cup
    [type : {"transcript"}, role : {"user"}, transcript : {BlankText},
     text : {EmptyText}, transcriptType : {"partial", "final"}]
    \cup
    { [type |-> "transcript", role |-> "system", transcript |-> EmptyText,
       text |-> GoAhead, transcriptType |-> "final"],
      [type |-> "transcript", role |-> "assistant", transcript |-> EmptyText,
       text |-> EmptyText, transcriptType |-> "partial"],
      [type |-> "speech-update", role |-> "assistant", transcript |-> EmptyText,
       text |-> EmptyText, transcriptType |-> "partial"] }

\* const role = message.role === "assistant" ? "assistant" : "user"
MessageRole(m) == IF m.role = "assistant" THEN "assistant" ELSE "user"

\* const text = message.transcript || message.text || ""
MessageText(m) ==
    IF m.transcript # EmptyText THEN m.transcript
    ELSE IF m.text # EmptyText THEN m.text
    ELSE EmptyText

\* const isFinal = message.transcriptType === "final"
MessageIsFinal(m) == m.transcriptType = "final"

\* without the trim: only the empty string is turned away
AcceptedUntrimmed(m) == m.type = "transcript" /\ MessageText(m) # EmptyText

\* the message reaches setTranscript: a transcript message with non-blank text
Accepted(m) == m.type = "transcript" /\ ~IsBlank(MessageText(m))

IsPartialOf(role, e) == e.role = role /\ ~e.isFinal

\* variants of the updater, each with one slip:
\* a partial is always appended, never merged into the pending one
setTranscriptUpdateAppendOnly(prev, role, text, isFinal, t) ==
    IF isFinal
    THEN SelectSeq(prev, LAMBDA e : ~IsPartialOf(role, e)) \o
         <<[role |-> role, text |-> text, isFinal |-> TRUE, timestamp |-> t]>>
    ELSE prev \o <<[role |-> role, text |-> text, isFinal |-> FALSE, timestamp |-> t]>>

\* a partial is merged into the first entry of its role, final or not
setTranscriptUpdateAnyEntry(prev, role, text, isFinal, t) ==
    IF isFinal
    THEN SelectSeq(prev, LAMBDA e : ~IsPartialOf(role, e)) \o
         <<[role |-> role, text |-> text, isFinal |-> TRUE, timestamp |-> t]>>
    ELSE LET idx == FindIndex({i \in 1..Len(prev) : prev[i].role = role})
         IN  IF idx > 0
             THEN [prev EXCEPT ![idx].text = text]
             ELSE prev \o
                  <<[role |-> role, text |-> text, isFinal |-> FALSE, timestamp |-> t]>>

\* a final is appended without removing the pending partial
setTranscriptUpdateKeepPartial(prev, role, text, isFinal, t) ==
    IF isFinal
    THEN prev \o <<[role |-> role, text |-> text, isFinal |-> TRUE, timestamp |-> t]>>
    ELSE LET idx == FindIndex({i \in 1..Len(prev) : IsPartialOf(role, prev[i])})
         IN  IF idx > 0
             THEN [prev EXCEPT ![idx].text = text]
             ELSE prev \o
                  <<[role |-> role, text |-> text, isFinal |-> FALSE, timestamp |-> t]>>

\* a final overwrites the pending partial where it stands
setTranscriptUpdateInPlace(prev, role, text, isFinal, t) ==
    LET idx == FindIndex({i \in 1..Len(prev) : IsPartialOf(role, prev[i])})
        entry == [role |-> role, text |-> text, isFinal |-> isFinal, timestamp |-> t]
    IN  IF idx > 0
        THEN [prev EXCEPT ![idx] = IF isFinal THEN entry ELSE [@ EXCEPT !.text = text]]
        ELSE prev \o <<entry>>

\* a partial update takes the pending entry out and puts it back at the end
setTranscriptUpdateMoveLast(prev, role, text, isFinal, t) ==
    IF isFinal
    THEN SelectSeq(prev, LAMBDA e : ~IsPartialOf(role, e)) \o
         <<[role |-> role, text |-> text, isFinal |-> TRUE, timestamp |-> t]>>
    ELSE LET idx == FindIndex({i \in 1..Len(prev) : IsPartialOf(role, prev[i])})
         IN  IF idx > 0
             THEN SelectSeq(prev, LAMBDA e : ~IsPartialOf(role, e)) \o
                  <<[prev[idx] EXCEPT !.text = text]>>
             ELSE prev \o
                  <<[role |-> role, text |-> text, isFinal |-> FALSE, timestamp |-> t]>>

\* the updater passed to setTranscript (useVapi.ts 84-105); t is Date.now()
setTranscriptUpdate(prev, role, text, isFinal, t) ==
    IF isFinal
    THEN LET withoutPartial == SelectSeq(prev, LAMBDA e : ~IsPartialOf(role, e))
         IN  withoutPartial \o
             <<[role |-> role, text |-> text, isFinal |-> TRUE, timestamp |-> t]>>
    ELSE LET idx == FindIndex({i \in 1..Len(prev) : IsPartialOf(role, prev[i])})
         IN  IF idx > 0
             THEN [prev EXCEPT ![idx].text = text]
             ELSE prev \o
                  <<[role |-> role, text |-> text, isFinal |-> FALSE, timestamp |-> t]>>

\* the whole listener: what the transcript is after message m arrives at time t
onMessage(prev, m, t) ==
    IF Accepted(m)
    THEN setTranscriptUpdate(prev, MessageRole(m), MessageText(m), MessageIsFinal(m), t)
    ELSE prev

----------------------------------------------------------------------------
(* EvaluationEngine: evaluateTranscript (part_001 20-184) *)

ScoreFloor == 50
ScoreCeil == 82

CategoryNames == <<"Communication Skills", "Technical Knowledge", "Problem Solving",
                   "Cultural Fit", "Confidence and Clarity">>
NumCategories == Len(CategoryNames)

\* the values Math.random() can return, as numerators over RandDen:
\* both ends of [0,1) for each category independently, and the middle for all
Jitters == [1..NumCategories -> {0, RandDen - 1}]
           \cup {[i \in 1..NumCategories |-> RandDen \div 2]}

\* Math.round of num/den for den > 0
Round(num, den) == (2 * num + den) \div (2 * den)

Clamp(x) == Max(ScoreFloor, Min(ScoreCeil, x))

\* catScore with variance taken as the half-width of the jitter and the
\* result returned as rounded, without the clamp
catScoreWide(baseNum, den, variance, k) ==
    Round(baseNum * RandDen + (2 * k - RandDen) * variance * den, RandDen * den)

\* catScore (38-41); the base is baseNum/den, Math.random() returned k/RandDen
catScore(baseNum, den, variance, k) ==
    Clamp(Round(baseNum * 2 * RandDen + (2 * k - RandDen) * variance * den,
                2 * RandDen * den))

StrCommunication == "Good communication and articulation throughout the session."
ImpStructured == "Work on providing more detailed and structured responses."
StrTechnical == "Solid technical understanding in the discussed areas."
ImpTechnical == "Strengthen technical depth with specific examples and terminology."
StrEngaged == "Engaged well with most of the interview questions."
ImpAddressAll == "Try to address all questions asked during the interview."
StrDetailed == "Provided detailed answers showing depth of thought."
ImpComprehensive == "Aim for more comprehensive answers - 60 to 90 seconds per response."
ImpConcise == "Consider being more concise to keep answers focused."
StrConfident == "Confident delivery with clear explanations."
ImpConfidence == "Practice speaking with more confidence and conviction."
StrFallback == "Completed the interview and showed willingness to engage."
ImpFallback == "Continue refining responses for even greater impact."

AssessStrong == "Strong performance overall"
AssessAdequate == "Adequate performance with room for growth"
AssessPotential == "Shows potential but needs further preparation"

\* the fallback lines of 160-163; without them a list can stay empty
withFallbackNone(list, line) == list

withFallback(list, line) == IF Len(list) = 0 THEN <<line>> ELSE list

\* totalScore (109-117) with Math.floor in the place of Math.round
totalScoreFloor(scores) == Clamp(SumSeq(scores) \div Len(scores))

totalScoreOf(scores) == Clamp(Round(SumSeq(scores), Len(scores)))

\* finalAssessment (165-175)
assessmentOf(totalScore) ==
    IF totalScore >= 75 THEN AssessStrong
    ELSE IF totalScore >= 65 THEN AssessAdequate
    ELSE AssessPotential

\* the filter of line 21 without the isFinal test
userEntriesAnyFinality(entries) == SelectSeq(entries, LAMBDA e : e.role = "user")

\* userEntries (21)
userEntriesOf(entries) == SelectSeq(entries, LAMBDA e : e.isFinal /\ e.role = "user")

evaluateTranscript(entries, questionCount, rnd) ==
    LET userEntries == userEntriesOf(entries)
        n == Len(userEntries)
        totalUserWords == SumSeq([i \in 1..n |-> SplitCount(userEntries[i].text)])
        \* avgWordsPerAnswer = totalUserWords / n, or 0 when n = 0
        AvgAtLeast(w) == IF n > 0 THEN totalUserWords >= w * n ELSE 0 >= w
        AvgAbove(w) == IF n > 0 THEN totalUserWords > w * n ELSE 0 > w
        \* answeredRatio = ratioNum / den
        den == Max(questionCount, 1)
        ratioNum == Min(n, den)
        hasSubstance == AvgAtLeast(15)
        isDetailed == AvgAtLeast(40)
        isVerbose == AvgAbove(120)
        Bonus(cond, pts) == IF cond THEN pts * den ELSE 0
        \* the bases, as numerators over den
        commBase == 58 * den + ratioNum * 12 + Bonus(hasSubstance, 5)
                    + Bonus(isDetailed, 4) - Bonus(isVerbose, 3)
        techBase == 55 * den + ratioNum * 10 + Bonus(isDetailed, 6)
                    + Bonus(totalUserWords > 200, 3)
        problemBase == 54 * den + ratioNum * 10 + Bonus(isDetailed, 5)
                       + Bonus(AvgAbove(25), 3)
        cultureBase == 60 * den + ratioNum * 8 + Bonus(hasSubstance, 4)
        confBase == 56 * den + ratioNum * 12 + Bonus(hasSubstance, 5)
                    + Bonus(isDetailed, 3) - Bonus(isVerbose, 4)
        scores == << catScore(commBase, den, 6, rnd[1]),
                     catScore(techBase, den, 7, rnd[2]),
                     catScore(problemBase, den, 6, rnd[3]),
                     catScore(cultureBase, den, 5, rnd[4]),
                     catScore(confBase, den, 6, rnd[5]) >>
        comments == <<
            IF AvgAtLeast(30) THEN "clear and well-structured"
            ELSE IF AvgAtLeast(15) THEN "adequate" ELSE "brief",
            IF isDetailed THEN "solid understanding"
            ELSE IF hasSubstance THEN "reasonable awareness" ELSE "limited depth",
            IF isDetailed THEN "good analytical approach" ELSE "could be more structured",
            IF hasSubstance THEN "align reasonably well" ELSE "difficult to assess",
            IF isDetailed THEN "spoke confidently"
            ELSE IF hasSubstance THEN "adequate confidence" ELSE "more confident delivery" >>
        categories == [i \in 1..NumCategories |->
                          [name |-> CategoryNames[i], score |-> scores[i],
                           comment |-> comments[i]]]
        totalScore == totalScoreOf(scores)
        \* the pushes of 122-158, in order
        checks == <<
            IF commBase >= 68 * den THEN <<"s", StrCommunication>> ELSE <<"i", ImpStructured>>,
            IF techBase >= 65 * den THEN <<"s", StrTechnical>> ELSE <<"i", ImpTechnical>>,
            IF 5 * ratioNum >= 4 * den THEN <<"s", StrEngaged>> ELSE <<"i", ImpAddressAll>>,
            IF isDetailed THEN <<"s", StrDetailed>> ELSE <<"i", ImpComprehensive>>,
            IF isVerbose THEN <<"i", ImpConcise>> ELSE <<"-", "">>,
            IF confBase >= 68 * den THEN <<"s", StrConfident>> ELSE <<"i", ImpConfidence>> >>
        Pushed(kind) == LET hit == SelectSeq(checks, LAMBDA c : c[1] = kind)
                        IN  [i \in 1..Len(hit) |-> hit[i][2]]
    IN  [ totalScore |-> totalScore,
          categoryScores |-> categories,
          strengths |-> withFallback(Pushed("s"), StrFallback),
          areasForImprovement |-> withFallback(Pushed("i"), ImpFallback),
          finalAssessment |-> assessmentOf(totalScore) ]

----------------------------------------------------------------------------
(* Harness for the pure functions *)

NoEvaluation == [totalScore |-> 0]

\* no forceStop call has just been made
NoCmd == [forceStops |-> 0, engineThrew |-> FALSE,
          muteAsked |-> FALSE, stopAsked |-> FALSE,
          muteValue |-> FALSE, toggled |-> FALSE, notified |-> FALSE,
          effects |-> <<>>]

\* answers of 1, 40 and 121 words: below every tier, detailed, verbose
EvalTexts == {Words(1), Words(40), Words(121)}
EvalEntry == [role : Roles, text : EvalTexts, isFinal : BOOLEAN, timestamp : {InitNow}]

SeqsUpTo(S, n) == UNION {[1..k -> S] : k \in 0..n}

SessionIdle ==
    /\ isCallActive = FALSE /\ isMuted = FALSE /\ isLoading = FALSE
    /\ error = "null" /\ transcript = <<>>
    /\ analysing = FALSE /\ callStartTime = NoTime /\ showConfirm = FALSE
    /\ autoStarted = FALSE /\ pendingNavRef = "null"
    /\ vapiRef = "null" /\ calls = <<>> /\ curCall = 0
    /\ now = InitNow /\ navTimers = 0
    /\ saved = <<>> /\ saveStatus = <<>> /\ navigated = <<>> /\ evalCount = 0 /\ triggers = {}
    /\ lastCmd = NoCmd /\ thrown = FALSE
    /\ id = TRUE /\ interview = TRUE /\ loading = FALSE

sessionVars == <<isCallActive, isMuted, isLoading, error,
                 analysing, callStartTime, showConfirm, autoStarted, pendingNavRef,
                 vapiRef, calls, curCall, navTimers,
                 saved, saveStatus, navigated, evalCount, triggers, lastCmd, thrown,
                 id, interview, loading>>
evalVars == <<evalEntries, evalQc, evalRnd, evaluation>>

\* --- reconciler: the engine delivers any message; the clock has moved on
\* --- by the time the next one arrives
InitReconcile ==
    /\ SessionIdle
    /\ eventLog = <<>>
    /\ evalEntries = <<>> /\ evalQc = 0 /\ evalRnd = <<>> /\ evaluation = NoEvaluation

Deliver(m) ==
    /\ Len(eventLog) < MaxEvents
    /\ transcript' = onMessage(transcript, m, now)
    /\ eventLog' = Append(eventLog, m)
    /\ now' = now + 1
    /\ UNCHANGED <<sessionVars, evalVars>>

NextReconcile == \E m \in Messages : Deliver(m)

SpecReconcile == InitReconcile /\ [][NextReconcile]_vars

\* --- evaluation: any transcript, question count and jitter
InitEval ==
    /\ SessionIdle
    /\ eventLog = <<>>
    /\ evalEntries \in SeqsUpTo(EvalEntry, MaxEvalLen)
    /\ evalQc \in 0..MaxQ
    /\ evalRnd = <<>>
    /\ evaluation = NoEvaluation

Evaluate(rnd) ==
    /\ evaluation = NoEvaluation
    /\ evalRnd' = rnd
    /\ evaluation' = evaluateTranscript(evalEntries, evalQc, rnd)
    /\ UNCHANGED <<sessionVars, transcript, now, eventLog, evalEntries, evalQc>>

NextEval == \E rnd \in Jitters : Evaluate(rnd)

SpecEval == InitEval /\ [][NextEval]_vars

----------------------------------------------------------------------------
(* Properties of the reconciler, under SpecReconcile *)

\* the transcript the listener builds from an event log delivered from
\* InitNow on, one clock step per event
RECURSIVE Replay(_)
Replay(log) ==
    IF log = <<>> THEN <<>>
    ELSE LET k == Len(log)
         IN  onMessage(Replay(SubSeq(log, 1, k - 1)), log[k], InitNow + k - 1)

PartialIndexes(tr, role) == {i \in 1..Len(tr) : IsPartialOf(role, tr[i])}
Finals(tr) == SelectSeq(tr, LAMBDA e : e.isFinal)
IsPrefix(s, t) == Len(s) <= Len(t) /\ SubSeq(t, 1, Len(s)) = s

AcceptedPartials(log, role) ==
    {i \in 1..Len(log) :
        Accepted(log[i]) /\ ~MessageIsFinal(log[i]) /\ MessageRole(log[i]) = role}
AcceptedFinals(log, role) ==
    {i \in 1..Len(log) :
        Accepted(log[i]) /\ MessageIsFinal(log[i]) /\ MessageRole(log[i]) = role}

\* C3: after any sequence of message events the transcript holds at most one
\* non-final entry of role assistant and at most one of role user.
C3_PartialUnique ==
    \A r \in Roles : Cardinality(PartialIndexes(transcript, r)) <= 1

\* two partials of one role have been merged into a single pending entry
C3_Witness ==
    \E r \in Roles :
        /\ Cardinality(AcceptedPartials(eventLog, r)) >= 2
        /\ Cardinality(PartialIndexes(transcript, r)) = 1

\* C4: an entry that is final is never edited, removed or reordered by a later
\* event: the final entries after a step are those before it, unchanged and in
\* the same order, followed by one new final entry exactly when the event was
\* an accepted final (partials of the role never touch them).
C4_Step ==
    eventLog' # eventLog =>
        LET m == eventLog'[Len(eventLog')]
        IN  IF Accepted(m) /\ MessageIsFinal(m)
            THEN Finals(transcript') =
                    Finals(transcript) \o
                    <<[role |-> MessageRole(m), text |-> MessageText(m),
                       isFinal |-> TRUE, timestamp |-> now]>>
            ELSE Finals(transcript') = Finals(transcript)

C4_FinalImmutable == [][C4_Step]_vars

\* a role has two separate final entries and a later partial next to them
C4_Witness ==
    \E r \in Roles :
        /\ Cardinality({i \in 1..Len(transcript) :
                          transcript[i].role = r /\ transcript[i].isFinal}) >= 2
        /\ PartialIndexes(transcript, r) # {}

\* A run: the last events of the log are one or more accepted partials of one
\* role followed by one accepted final of that role. start is the index of
\* the run's first partial.
IsRun(log, start, role) ==
    /\ start >= 1 /\ start < Len(log)
    /\ \A i \in start..(Len(log) - 1) : i \in AcceptedPartials(log, role)
    /\ Len(log) \in AcceptedFinals(log, role)

\* index at which the run's first partial put its text
RunIndex(log, start, role) ==
    LET tr == Replay(SubSeq(log, 1, start))
    IN  FindIndex({i \in 1..Len(tr) : IsPartialOf(role, tr[i])})

\* no entry follows the role's pending entry in the transcript
PendingIsLast(tr, role) == \A i \in PartialIndexes(tr, role) : i = Len(tr)

RunOutcome(log, start, role) ==
    LET before == Replay(SubSeq(log, 1, start - 1))
        idx == RunIndex(log, start, role)
        last == log[Len(log)]
    IN  \* exactly one entry for the utterance: the pending entry is gone and
        \* the transcript grew by the one final entry
        /\ PartialIndexes(transcript, role) = {}
        /\ Len(transcript) =
              Len(SelectSeq(before, LAMBDA e : ~IsPartialOf(role, e))) + 1
        \* and it stands where the first partial stood
        /\ idx <= Len(transcript)
        /\ transcript[idx].role = role
        /\ transcript[idx].isFinal
        /\ transcript[idx].text = MessageText(last)

\* C5 as stated: for every run applied to any transcript, the transcript
\* afterwards has exactly one entry for the utterance, final and with the final
\* event's text, at the index where the run's first partial was put.
C5_Original ==
    \A r \in Roles : \A start \in 1..Len(eventLog) :
        IsRun(eventLog, start, r) => RunOutcome(eventLog, start, r)

\* C5 amended: the same, for runs applied to a transcript in which no entry
\* follows the role's pending (non-final) entry, if it has one.
C5_RunReconciled ==
    \A r \in Roles : \A start \in 1..Len(eventLog) :
        (/\ IsRun(eventLog, start, r)
         /\ PendingIsLast(Replay(SubSeq(eventLog, 1, start - 1)), r))
        => RunOutcome(eventLog, start, r)

\* two partials and a final of one role were applied to a non-empty transcript
C5_Witness ==
    \E r \in Roles :
        /\ Len(eventLog) = 4
        /\ IsRun(eventLog, 2, r)
        /\ Accepted(eventLog[1])
        /\ PendingIsLast(Replay(SubSeq(eventLog, 1, 1)), r)
        /\ Len(transcript) = 2

\* C6: from an empty transcript the events (user, "Hi there I think", partial),
\* (user, "Hi there I think I am ready", final), (assistant, "Go ahead", final)
\* give exactly two entries, both final: the user's with the final text, then
\* the assistant's.
ExampleEvents ==
    << [type |-> "transcript", role |-> "user", transcript |-> HiThereIThink,
        text |-> EmptyText, transcriptType |-> "partial"],
       [type |-> "transcript", role |-> "user", transcript |-> HiThereIThinkIAmReady,
        text |-> EmptyText, transcriptType |-> "final"],
       [type |-> "transcript", role |-> "assistant", transcript |-> GoAhead,
        text |-> EmptyText, transcriptType |-> "final"] >>

C6_Example ==
    eventLog = ExampleEvents =>
        /\ Len(transcript) = 2
        /\ transcript[1].role = "user" /\ transcript[1].isFinal
        /\ transcript[1].text = HiThereIThinkIAmReady
        /\ transcript[2].role = "assistant" /\ transcript[2].isFinal
        /\ transcript[2].text = GoAhead

C6_Witness == eventLog = ExampleEvents /\ Len(transcript) = 2

\* the message of a Deliver step and the entry it makes
Delivered == eventLog' # eventLog
LastMessage == eventLog'[Len(eventLog')]
EntryOf(m, t) ==
    [role |-> MessageRole(m), text |-> MessageText(m),
     isFinal |-> MessageIsFinal(m), timestamp |-> t]

\* the transcript before the last event of the log, and that event
Before == Replay(SubSeq(eventLog, 1, Len(eventLog) - 1))
LastEvent == eventLog[Len(eventLog)]

\* C18 as stated: when an accepted final arrives for a role that has a
\* non-final entry, the new final entry stands afterwards at the index the
\* removed partial had, whatever follows the partial in the transcript.
C18_OriginalStep ==
    (Delivered /\ Accepted(LastMessage) /\ MessageIsFinal(LastMessage)) =>
        \A idx \in PartialIndexes(transcript, MessageRole(LastMessage)) :
            /\ idx <= Len(transcript')
            /\ transcript'[idx] = EntryOf(LastMessage, now)

C18_Original == [][C18_OriginalStep]_vars

\* C18 amended: the new final entry is the last entry of the transcript; the
\* entries that followed the removed partial each stand one index lower, so
\* the final stands at the partial's index exactly when the partial was the
\* last entry.
C18_Step ==
    (Delivered /\ Accepted(LastMessage) /\ MessageIsFinal(LastMessage)) =>
        \A idx \in PartialIndexes(transcript, MessageRole(LastMessage)) :
            /\ Len(transcript') = Len(transcript)
            /\ transcript'[Len(transcript')] = EntryOf(LastMessage, now)
            /\ \A j \in (idx + 1)..Len(transcript) :
                  transcript'[j - 1] = transcript[j]
            /\ (transcript'[idx] = EntryOf(LastMessage, now)) <=> (idx = Len(transcript))

C18_FinalGoesLast == [][C18_Step]_vars

\* a final has replaced a partial that an entry of the other role followed
C18_Witness ==
    /\ eventLog # <<>>
    /\ Accepted(LastEvent) /\ MessageIsFinal(LastEvent)
    /\ \E idx \in PartialIndexes(Before, MessageRole(LastEvent)) :
          /\ idx < Len(Before)
          /\ Before[idx + 1].role # MessageRole(LastEvent)
    /\ transcript[Len(transcript)].text = MessageText(LastEvent)

\* C19: an accepted final gives the transcript as it was, without the
\* non-final entry of the final's role if there was one, followed by one new
\* final entry with the event's role and text; with no such partial the length
\* grows by exactly one, so a final after a final of the same role is a
\* separate entry.
C19_Step ==
    (Delivered /\ Accepted(LastMessage) /\ MessageIsFinal(LastMessage)) =>
        LET gone == PartialIndexes(transcript, MessageRole(LastMessage))
            kept == {i \in 1..Len(transcript) : i \notin gone}
            Shift(i) == i - Cardinality({g \in gone : g < i})
        IN  /\ Len(transcript') = Cardinality(kept) + 1
            /\ \A i \in kept : transcript'[Shift(i)] = transcript[i]
            /\ transcript'[Len(transcript')] = EntryOf(LastMessage, now)
            /\ transcript'[Len(transcript')].isFinal
            /\ (gone = {} => Len(transcript') = Len(transcript) + 1)

C19_FinalAppends == [][C19_Step]_vars

\* a final arrived right after a final of the same role, and both are entries
C19_Witness ==
    /\ Len(eventLog) >= 2
    /\ Accepted(LastEvent) /\ MessageIsFinal(LastEvent)
    /\ PartialIndexes(Before, MessageRole(LastEvent)) = {}
    /\ Before # <<>>
    /\ Before[Len(Before)].isFinal
    /\ Before[Len(Before)].role = MessageRole(LastEvent)
    /\ Len(transcript) = Len(Before) + 1

\* C20: an accepted partial for a role that has a non-final entry replaces
\* that entry's text and nothing else: length, index, timestamp and every
\* other entry stay; for a role without one it appends one new non-final
\* entry and leaves the rest as it was.
C20_Step ==
    (Delivered /\ Accepted(LastMessage) /\ ~MessageIsFinal(LastMessage)) =>
        LET pending == PartialIndexes(transcript, MessageRole(LastMessage))
        IN  IF pending # {}
            THEN /\ Len(transcript') = Len(transcript)
                 /\ \A i \in 1..Len(transcript) :
                       IF i \in pending
                       THEN /\ transcript'[i].text = MessageText(LastMessage)
                            /\ transcript'[i].timestamp = transcript[i].timestamp
                            /\ transcript'[i].role = transcript[i].role
                            /\ ~transcript'[i].isFinal
                       ELSE transcript'[i] = transcript[i]
            ELSE transcript' = Append(transcript, EntryOf(LastMessage, now))

C20_PartialFrame == [][C20_Step]_vars

\* a partial changed the text of a pending entry that was stamped earlier and
\* has another entry after it
C20_Witness ==
    /\ eventLog # <<>>
    /\ Accepted(LastEvent) /\ ~MessageIsFinal(LastEvent)
    /\ \E idx \in PartialIndexes(Before, MessageRole(LastEvent)) :
          /\ idx < Len(Before)
          /\ Before[idx].text # MessageText(LastEvent)
          /\ transcript[idx].text = MessageText(LastEvent)
          /\ transcript[idx].timestamp < InitNow + Len(eventLog) - 1

----------------------------------------------------------------------------
(* Properties of the evaluation, under SpecEval *)

Evaluated == evaluation # NoEvaluation
CategoryScoreSet == {evaluation.categoryScores[i].score : i \in 1..NumCategories}
FinalUserEntries(entries) ==
    SelectSeq(entries, LAMBDA e : e.isFinal /\ e.role = "user")

\* C7: whatever the transcript, the question count and the jitter, each of the
\* five category scores and the total score is an integer from 50 to 82.
C7_ScoreBounds ==
    Evaluated =>
        /\ CategoryScoreSet \subseteq ScoreFloor..ScoreCeil
        /\ evaluation.totalScore \in ScoreFloor..ScoreCeil

\* a category reaches the top of the range
C7_Witness == Evaluated /\ evaluation.categoryScores[1].score = ScoreCeil

\* C8: strengths and improvements are never empty; when no check pushed a
\* line, the list holds the one generic fallback line.
C8_NonEmptyFeedback ==
    Evaluated =>
        /\ Len(evaluation.strengths) >= 1
        /\ Len(evaluation.areasForImprovement) >= 1

\* every check was a strength, so the improvements are the fallback line alone
C8_Witness ==
    /\ Evaluated
    /\ evaluation.areasForImprovement = <<ImpFallback>>
    /\ Len(evaluation.strengths) = 5

NoAnswerCase ==
    Evaluated /\ FinalUserEntries(evalEntries) = <<>> /\ evalQc = 5

\* C9 as stated: no final user entry and questionCount = 5 give totalScore = 50
\* for every jitter, and the improvements hold the "address all questions" and
\* the "comprehensive answers" lines.
C9_Original ==
    NoAnswerCase =>
        /\ evaluation.totalScore = 50
        /\ ImpAddressAll \in Range(evaluation.areasForImprovement)
        /\ ImpComprehensive \in Range(evaluation.areasForImprovement)

\* C9 amended: in that case the total score is between 54 and 59 for every
\* jitter (the bases without answers are 58, 55, 54, 60, 56), and the
\* improvements hold the two lines.
C9_NoAnswerScore ==
    NoAnswerCase =>
        /\ evaluation.totalScore \in 54..59
        /\ ImpAddressAll \in Range(evaluation.areasForImprovement)
        /\ ImpComprehensive \in Range(evaluation.areasForImprovement)

\* entries were given, none a final user entry, and every draw was the lowest
C9_Witness ==
    /\ NoAnswerCase
    /\ Len(evalEntries) = 2
    /\ evaluation.totalScore = 54

\* C32: the result depends only on the final user entries: an evaluation of
\* a transcript is the evaluation of its final user entries alone, with the
\* same question count and the same jitter, so two transcripts with the same
\* final user entries get the same result whatever else they contain.
C32_OnlyFinalUserEntries ==
    Evaluated =>
        evaluation = evaluateTranscript(FinalUserEntries(evalEntries), evalQc, evalRnd)

\* a long non-final user entry stands before a final user answer of 40 words,
\* and the answer alone was counted: it is detailed and not too long
C32_Witness ==
    /\ Evaluated
    /\ Len(evalEntries) = 2
    /\ evalEntries[1].role = "user" /\ ~evalEntries[1].isFinal
    /\ SplitCount(evalEntries[1].text) = 121
    /\ evalEntries[2].role = "user" /\ evalEntries[2].isFinal
    /\ SplitCount(evalEntries[2].text) = 40
    /\ StrDetailed \in Range(evaluation.strengths)
    /\ ImpConcise \notin Range(evaluation.areasForImprovement)

\* the sum of the five category scores of the evaluation
CategorySum == SumSeq([i \in 1..NumCategories |-> evaluation.categoryScores[i].score])

\* C33: totalScore is the mean of the five category scores rounded to the
\* nearest integer and clamped to [50,82]; finalAssessment is the first
\* paragraph from 75, the second from 65 to 74, the third below 65.
C33_TotalAndAssessment ==
    Evaluated =>
        /\ LET r == (CategorySum + 2) \div NumCategories
           IN  /\ NumCategories * r - CategorySum \in -2..2
               /\ evaluation.totalScore = Max(ScoreFloor, Min(ScoreCeil, r))
        /\ evaluation.totalScore >= 75 => evaluation.finalAssessment = AssessStrong
        /\ evaluation.totalScore \in 65..74 => evaluation.finalAssessment = AssessAdequate
        /\ evaluation.totalScore < 65 => evaluation.finalAssessment = AssessPotential

\* the mean was rounded up to 75, the lowest score of the first paragraph
C33_Witness ==
    /\ Evaluated
    /\ CategorySum % NumCategories \in {3, 4}
    /\ evaluation.totalScore = 75
    /\ evaluation.finalAssessment = AssessStrong

----------------------------------------------------------------------------
(* SessionController (useVapi.ts 36-202) and SessionOrchestrator             *)
(* (InterviewSession, part_001 238-448)                                      *)

TickMs == 1500
ErrNotConfigured == "Vapi public key not configured"
\* the error listener leaves the error field empty
ErrCleared == "null"
ErrEngine == "An error occurred"
ErrStart == "Failed to start call"

\* the promise saveInterviewResponse returned (part_001 315, 423)
Pending == "pending"
Resolved == "resolved"
Rejected == "rejected"

\* interview?.questions?.length || 3, for the three-question interview
SessionQuestionCount == 3

\* the draws of Math.random() during a session: the highest for every category
SessionJitters == {[i \in 1..NumCategories |-> RandDen - 1]}

\* the transcript messages of a session
SessionMessages ==
    { [type |-> "transcript", role |-> "user", transcript |-> HiThereIThink,
       text |-> EmptyText, transcriptType |-> "partial"],
      [type |-> "transcript", role |-> "user", transcript |-> HiThereIThinkIAmReady,
       text |-> EmptyText, transcriptType |-> "final"] }

\* the React state a render shows and its closures read
Snapshot ==
    [isCallActive |-> isCallActive, isMuted |-> isMuted, isLoading |-> isLoading,
     error |-> error, transcript |-> transcript, analysing |-> analysing,
     callStartTime |-> callStartTime, showConfirm |-> showConfirm,
     autoStarted |-> autoStarted]

\* what onCallEnd reads of the render that created it (part_001 293-307)
Closure ==
    [analysing |-> analysing, callStartTime |-> callStartTime,
     transcript |-> transcript]

Mounted == navigated = <<>>
HasHandle == vapiRef # "null"

\* a call that has ended delivers no further event: what its listeners
\* closed over and what was asked of it no longer matter
NoClosure == [analysing |-> FALSE, callStartTime |-> NoTime, transcript |-> <<>>]
EndedCall == [status |-> "ended", stopRequested |-> FALSE, closure |-> NoClosure]
End(cs, k) == [cs EXCEPT ![k] = EndedCall]

\* vapi.stop() on the handle whose call is k (no call: k = 0)
StopOn(cs, k) ==
    IF k = 0 \/ cs[k].status = "ended" THEN cs
    ELSE [cs EXCEPT ![k].stopRequested = TRUE]

\* vapi.start() on the current handle, whose listeners are those of the
\* current render
NewCall == [status |-> "starting", stopRequested |-> FALSE, closure |-> Closure]

\* `${e.role === "assistant" ? "Interviewer" : "You"}: ${e.text}`
FormatLine(e) ==
    <<IF e.role = "assistant" THEN "Interviewer:" ELSE "You:", " ">> \o e.text

\* transcript.filter(e => e.isFinal).map(...)
finalTranscriptOf(tr) ==
    LET finals == SelectSeq(tr, LAMBDA e : e.isFinal)
    IN  [i \in 1..Len(finals) |-> FormatLine(finals[i])]

\* callStartTime ? Math.floor((Date.now() - callStartTime) / 1000) : 0
durationOf(startTime, t) ==
    IF startTime # NoTime THEN (t - startTime) \div 1000 ELSE 0

\* what saveInterviewResponse is called with (part_001 315-321, 423-429)
SavePayload(c, rnd) ==
    [fullTranscript |-> finalTranscriptOf(c.transcript),
     evaluation |-> evaluateTranscript(c.transcript, SessionQuestionCount, rnd),
     duration |-> durationOf(c.callStartTime, now)]

NavState(payload) ==
    [transcript |-> payload.fullTranscript, evaluation |-> payload.evaluation]

harnessVars == <<eventLog, evalEntries, evalQc, evalRnd, evaluation>>
lookupVars == <<id, interview, loading>>

\* --- the state after the first render and its effects (useVapi.ts 51-59),
\* --- for a page that was given its interview in the navigation state
Init ==
    /\ vapiRef \in {"null", "vapi"}
    /\ isCallActive = FALSE /\ isMuted = FALSE /\ isLoading = FALSE
    /\ error = (IF vapiRef = "null" THEN ErrNotConfigured ELSE "null")
    /\ transcript = <<>>
    /\ analysing = FALSE /\ callStartTime = NoTime /\ showConfirm = FALSE
    /\ autoStarted = FALSE /\ pendingNavRef = "null"
    /\ calls = <<>> /\ curCall = 0
    /\ now = InitNow /\ navTimers = 0
    /\ saved = <<>> /\ saveStatus = <<>> /\ navigated = <<>> /\ evalCount = 0 /\ triggers = {}
    /\ lastCmd = NoCmd /\ thrown = FALSE
    /\ id = TRUE /\ interview = TRUE /\ loading = FALSE
    /\ eventLog = <<>>
    /\ evalEntries = <<>> /\ evalQc = 0 /\ evalRnd = <<>> /\ evaluation = NoEvaluation

\* --- the re-render that follows a handler which changed the state. The
\* --- four callbacks InterviewSession passes to useVapi are new functions on
\* --- every render, so the effect of useVapi.ts 51-120 is cleaned up
\* --- (vapi.stop() on the old handle) and run again (a new handle, with
\* --- listeners closing over the new render). cs and k are the calls and the
\* --- current handle's call as the handler left them.
Commit(cs, k) ==
    IF Snapshot' # Snapshot
    THEN /\ calls' = (IF HasHandle THEN StopOn(cs, k) ELSE cs)
         /\ curCall' = 0
    ELSE /\ calls' = cs
         /\ curCall' = k

\* --- time passes. Date.now() is read to record the call start, to stamp an
\* --- entry and to take the duration since the call start, so only the time
\* --- that passes after a call start is told apart
Tick ==
    /\ Mounted
    /\ callStartTime # NoTime
    /\ now < InitNow + MaxTicks * TickMs
    /\ now' = now + TickMs
    /\ lastCmd' = NoCmd
    /\ thrown' = FALSE
    /\ UNCHANGED <<isCallActive, isMuted, isLoading, error, transcript, analysing,
                   callStartTime, showConfirm, autoStarted, pendingNavRef,
                   vapiRef, calls, curCall, navTimers, saved, saveStatus, navigated, evalCount, triggers,
                   harnessVars, lookupVars>>

\* --- startCall (useVapi.ts 122-164), up to its await: the body runs when
\* --- there is a handle and the render was not active; a handle that
\* --- already has a call does not place a second one
\* the guard of startCall turned round
StartRunsWhenActive == HasHandle /\ isCallActive

\* startCall without the check of the handle
StartRunsNoHandleCheck == ~isCallActive

StartRuns == HasHandle /\ ~isCallActive
CallsAfterStart ==
    IF StartRuns /\ curCall = 0 THEN Append(calls, NewCall) ELSE calls
CurAfterStart ==
    IF StartRuns /\ curCall = 0 THEN Len(calls) + 1 ELSE curCall

\* the auto-start timer of part_001 375-383 fires
AutoStartTimer ==
    /\ Mounted
    /\ interview /\ ~loading
    /\ ~autoStarted /\ ~isCallActive /\ ~isLoading
    /\ isLoading' = (IF StartRuns THEN TRUE ELSE isLoading)
    /\ error' = (IF StartRuns THEN "null" ELSE error)
    /\ autoStarted' = TRUE
    /\ lastCmd' = NoCmd
    /\ thrown' = FALSE
    /\ UNCHANGED <<isCallActive, isMuted, transcript, analysing, callStartTime,
                   showConfirm, pendingNavRef, vapiRef, now, navTimers,
                   saved, saveStatus, navigated, evalCount, triggers, harnessVars, lookupVars>>
    /\ Commit(CallsAfterStart, CurAfterStart)

\* the same, within the bound on the calls placed
AutoStart == Len(calls) < MaxCalls /\ AutoStartTimer

\* the user clicks "Start Voice Interview" (part_001 1000-1007)
ClickStart ==
    /\ Mounted /\ ~loading
    /\ ~isCallActive /\ ~isLoading
    /\ ~analysing /\ ~showConfirm
    /\ Len(calls) < MaxCalls
    /\ isLoading' = (IF StartRuns THEN TRUE ELSE isLoading)
    /\ error' = (IF StartRuns THEN "null" ELSE error)
    /\ lastCmd' = NoCmd
    /\ thrown' = FALSE
    /\ UNCHANGED <<isCallActive, isMuted, transcript, analysing, callStartTime,
                   showConfirm, autoStarted, pendingNavRef, vapiRef, now,
                   navTimers, saved, saveStatus, navigated, evalCount, triggers, harnessVars, lookupVars>>
    /\ Commit(CallsAfterStart, CurAfterStart)

\* a caller of the hook invokes startCall() in any state of the controller;
\* the bound leaves room for one call more than the page's controls place
StartCall ==
    /\ Mounted
    /\ Len(calls) <= MaxCalls
    /\ isLoading' = (IF StartRuns THEN TRUE ELSE isLoading)
    /\ error' = (IF StartRuns THEN "null" ELSE error)
    /\ lastCmd' = NoCmd
    /\ thrown' = FALSE
    /\ UNCHANGED <<isCallActive, isMuted, transcript, analysing, callStartTime,
                   showConfirm, autoStarted, pendingNavRef, vapiRef, now,
                   navTimers, saved, saveStatus, navigated, evalCount, triggers, harnessVars, lookupVars>>
    /\ Commit(CallsAfterStart, CurAfterStart)

\* the promise of vapi.start() rejects: the catch of useVapi.ts 157-163
StartRejected(k) ==
    /\ Mounted
    /\ calls[k].status = "starting"
    /\ error' = ErrStart
    /\ isLoading' = FALSE
    /\ lastCmd' = [NoCmd EXCEPT !.notified = TRUE]
    /\ thrown' = FALSE
    /\ UNCHANGED <<isCallActive, isMuted, transcript, analysing, callStartTime,
                   showConfirm, autoStarted, pendingNavRef, vapiRef,
                   now, navTimers, saved, saveStatus, navigated, evalCount, triggers, harnessVars, lookupVars>>
    /\ Commit(End(calls, k), curCall)

\* --- engine events of call k, delivered to the listeners its handle got

\* "call-start" (useVapi.ts 62-67) and onCallStart (part_001 288-290); the
\* engine may deliver it although a stop was requested while connecting
EngineCallStart(k) ==
    /\ Mounted
    /\ calls[k].status = "starting"
    /\ isCallActive' = TRUE
    /\ isLoading' = FALSE
    /\ error' = "null"
    /\ callStartTime' = now
    /\ lastCmd' = NoCmd
    /\ thrown' = FALSE
    /\ UNCHANGED <<isMuted, transcript, analysing, showConfirm, autoStarted,
                   pendingNavRef, vapiRef, now, navTimers, saved, saveStatus,
                   navigated, evalCount, triggers, harnessVars, lookupVars>>
    /\ Commit([calls EXCEPT ![k].status = "active"], curCall)

\* "message" (useVapi.ts 75-108); onMessage of the page does nothing
EngineMessage(k, m) ==
    /\ Mounted
    /\ calls[k].status = "active"
    /\ Len(onMessage(transcript, m, now)) <= MaxEntries
    /\ transcript' = onMessage(transcript, m, now)
    /\ lastCmd' = NoCmd
    /\ thrown' = FALSE
    /\ UNCHANGED <<isCallActive, isMuted, isLoading, error, analysing, callStartTime,
                   showConfirm, autoStarted, pendingNavRef, vapiRef,
                   now, navTimers, saved, saveStatus, navigated, evalCount, triggers, harnessVars, lookupVars>>
    /\ Commit(calls, curCall)

\* "error" (useVapi.ts 110-114); onError of the page does nothing
EngineError(k) ==
    /\ Mounted
    /\ calls[k].status \in {"starting", "active"}
    /\ error' = ErrEngine
    /\ isLoading' = FALSE
    /\ lastCmd' = [NoCmd EXCEPT !.notified = TRUE]
    /\ thrown' = FALSE
    /\ UNCHANGED <<isCallActive, isMuted, transcript, analysing, callStartTime,
                   showConfirm, autoStarted, pendingNavRef, vapiRef,
                   now, navTimers, saved, saveStatus, navigated, evalCount, triggers, harnessVars, lookupVars>>
    /\ Commit(calls, curCall)

\* "call-end" (useVapi.ts 69-73) and onCallEnd (part_001 291-343), which
\* reads analysing, callStartTime and transcript of the render it closed over
EngineCallEnd(k, rnd) ==
    /\ Mounted
    /\ \/ calls[k].status = "active"
       \/ calls[k].status = "starting" /\ calls[k].stopRequested
    /\ isCallActive' = FALSE
    /\ isLoading' = FALSE
    /\ IF calls[k].closure.analysing
       THEN UNCHANGED <<analysing, pendingNavRef, navTimers, saved, saveStatus, evalCount>>
       ELSE LET payload == SavePayload(calls[k].closure, rnd)
            IN  /\ evalCount' = evalCount + 1
                /\ saved' = Append(saved, payload)
                /\ saveStatus' = Append(saveStatus, Pending)
                /\ pendingNavRef' = NavState(payload)
                /\ analysing' = TRUE
                /\ navTimers' = navTimers + 1
    /\ triggers' = triggers \cup {"onCallEnd"}
    /\ lastCmd' = NoCmd
    /\ thrown' = FALSE
    /\ UNCHANGED <<isMuted, error, transcript, callStartTime, showConfirm,
                   autoStarted, vapiRef, now, navigated, harnessVars, lookupVars>>
    /\ Commit(End(calls, k), curCall)

\* --- forceStop (useVapi.ts 171-182): what it leaves behind when setMuted
\* --- throws (mt) or stop throws (st); k is the call of the current handle

\* without the two try/catch blocks: the first throw ends the function
forceStopUncaught(cs, k, mt, st) ==
    IF ~HasHandle
    THEN [calls |-> cs, isCallActive |-> isCallActive, isLoading |-> isLoading,
          isMuted |-> isMuted, thrown |-> FALSE,
          muteAsked |-> FALSE, stopAsked |-> FALSE]
    ELSE IF mt \/ st
    THEN [calls |-> cs, isCallActive |-> isCallActive, isLoading |-> isLoading,
          isMuted |-> isMuted, thrown |-> TRUE,
          muteAsked |-> TRUE, stopAsked |-> ~mt]
    ELSE [calls |-> StopOn(cs, k), isCallActive |-> FALSE, isLoading |-> FALSE,
          isMuted |-> FALSE, thrown |-> FALSE,
          muteAsked |-> TRUE, stopAsked |-> TRUE]

\* muteAsked and stopAsked: setMuted(true) and stop() were invoked on the
\* handle, whether or not they threw
forceStop(cs, k, mt, st) ==
    IF ~HasHandle
    THEN [calls |-> cs, isCallActive |-> isCallActive, isLoading |-> isLoading,
          isMuted |-> isMuted, thrown |-> FALSE,
          muteAsked |-> FALSE, stopAsked |-> FALSE]
    ELSE [calls |-> (IF st THEN cs ELSE StopOn(cs, k)),
          isCallActive |-> FALSE, isLoading |-> FALSE, isMuted |-> FALSE,
          thrown |-> FALSE,
          muteAsked |-> TRUE, stopAsked |-> TRUE]

\* a caller of the hook invokes forceStop()
ForceStop(mt, st) ==
    /\ Mounted
    /\ LET r == forceStop(calls, curCall, mt, st)
       IN  /\ isCallActive' = r.isCallActive
           /\ isLoading' = r.isLoading
           /\ isMuted' = r.isMuted
           /\ thrown' = r.thrown
           /\ lastCmd' = [forceStops |-> Min(lastCmd.forceStops + 1, 2),
                          engineThrew |-> lastCmd.engineThrew
                                          \/ (HasHandle /\ (mt \/ st)),
                          muteAsked |-> r.muteAsked,
                          stopAsked |-> r.stopAsked,
                          muteValue |-> r.muteAsked,
                          toggled |-> FALSE, notified |-> FALSE,
                          effects |-> <<>>]
           /\ UNCHANGED <<error, transcript, analysing, callStartTime, showConfirm,
                          autoStarted, pendingNavRef, vapiRef, now,
                          navTimers, saved, saveStatus, navigated, evalCount, triggers, harnessVars, lookupVars>>
           /\ Commit(r.calls, curCall)

\* a caller of the hook invokes stopCall() (useVapi.ts 166-169); when stop
\* throws (st) the error goes to the caller and nothing has changed
StopCall(st) ==
    /\ Mounted
    /\ calls' = (IF HasHandle /\ ~st THEN StopOn(calls, curCall) ELSE calls)
    /\ thrown' = FALSE
    /\ lastCmd' = NoCmd
    /\ UNCHANGED <<isCallActive, isMuted, isLoading, error, transcript, analysing,
                   callStartTime, showConfirm, autoStarted, pendingNavRef,
                   vapiRef, curCall, now, navTimers, saved, saveStatus, navigated, evalCount, triggers,
                   harnessVars, lookupVars>>

\* the flag is flipped whether or not the call is active
toggleMuteAlways(mt) ==
    IF ~HasHandle
    THEN [isMuted |-> isMuted, asked |-> FALSE, value |-> FALSE, threw |-> FALSE]
    ELSE [isMuted |-> (IF mt THEN isMuted ELSE ~isMuted),
          asked |-> TRUE, value |-> ~isMuted, threw |-> mt]

\* toggleMute (useVapi.ts 184-189): the flag it leaves, whether setMuted
\* was invoked and with which value, and whether it threw (mt), in which
\* case setIsMuted is not reached
toggleMute(mt) ==
    IF ~HasHandle \/ ~isCallActive
    THEN [isMuted |-> isMuted, asked |-> FALSE, value |-> FALSE, threw |-> FALSE]
    ELSE [isMuted |-> (IF mt THEN isMuted ELSE ~isMuted),
          asked |-> TRUE, value |-> ~isMuted, threw |-> mt]

\* a caller of the hook invokes toggleMute()
ToggleMute(mt) ==
    /\ Mounted
    /\ LET r == toggleMute(mt)
       IN  /\ isMuted' = r.isMuted
           /\ lastCmd' = [NoCmd EXCEPT !.toggled = TRUE, !.muteAsked = r.asked,
                                       !.muteValue = r.value, !.engineThrew = r.threw]
    /\ thrown' = FALSE
    /\ UNCHANGED <<isCallActive, isLoading, error, transcript, analysing,
                   callStartTime, showConfirm, autoStarted, pendingNavRef, vapiRef,
                   now, navTimers, saved, saveStatus, navigated, evalCount, triggers,
                   harnessVars, lookupVars>>
    /\ Commit(calls, curCall)

\* the user clicks Mute/Unmute: toggleMute (useVapi.ts 184-189); the button
\* is rendered while the call is active (part_001 1009-1016); when setMuted
\* throws (mt) the flag is not flipped
ClickMute(mt) ==
    /\ Mounted /\ ~loading
    /\ isCallActive /\ ~analysing /\ ~showConfirm
    /\ isMuted' = toggleMute(mt).isMuted
    /\ thrown' = FALSE
    /\ lastCmd' = NoCmd
    /\ UNCHANGED <<isCallActive, isLoading, error, transcript, analysing,
                   callStartTime, showConfirm, autoStarted, pendingNavRef, vapiRef,
                   now, navTimers, saved, saveStatus, navigated, evalCount, triggers, harnessVars, lookupVars>>
    /\ Commit(calls, curCall)

\* the user clicks "End Interview": handleEndInterview (part_001 389-391)
ClickEnd ==
    /\ Mounted /\ ~loading
    /\ isCallActive /\ ~analysing /\ ~showConfirm
    /\ showConfirm' = TRUE
    /\ lastCmd' = NoCmd
    /\ thrown' = FALSE
    /\ UNCHANGED <<isCallActive, isMuted, isLoading, error, transcript, analysing,
                   callStartTime, autoStarted, pendingNavRef, vapiRef, now,
                   navTimers, saved, saveStatus, navigated, evalCount, triggers, harnessVars, lookupVars>>
    /\ Commit(calls, curCall)

\* the user clicks "Continue Interview" (part_001 876-877)
ClickContinue ==
    /\ Mounted /\ ~loading
    /\ showConfirm /\ ~analysing
    /\ showConfirm' = FALSE
    /\ lastCmd' = NoCmd
    /\ thrown' = FALSE
    /\ UNCHANGED <<isCallActive, isMuted, isLoading, error, transcript, analysing,
                   callStartTime, autoStarted, pendingNavRef, vapiRef, now,
                   navTimers, saved, saveStatus, navigated, evalCount, triggers, harnessVars, lookupVars>>
    /\ Commit(calls, curCall)

\* the user confirms the end: confirmEnd (part_001 393-448); the dialog lies
\* under the analysis loader once that is rendered
\* the save is sent and the timer set before the controller is stopped
confirmEndEffectsStopLast ==
    <<"evaluate", "save", "setTimeout">> \o
    (IF HasHandle THEN <<"setMuted", "stop", "setIsCallActive">> ELSE <<>>)

\* what confirmEnd does, in the order of its statements (part_001 393-447):
\* forceStop() with its engine calls and setters (useVapi.ts 171-181, nothing
\* without a handle), evaluateTranscript, saveInterviewResponse, setTimeout
confirmEndEffects ==
    (IF HasHandle THEN <<"setMuted", "stop", "setIsCallActive">> ELSE <<>>) \o
    <<"evaluate", "save", "setTimeout">>

ConfirmEnd(mt, st, rnd) ==
    /\ Mounted /\ ~loading
    /\ showConfirm /\ ~analysing
    /\ LET r == forceStop(calls, curCall, mt, st)
           payload == SavePayload(Closure, rnd)
       IN  /\ showConfirm' = FALSE
           /\ isCallActive' = r.isCallActive
           /\ isLoading' = r.isLoading
           /\ isMuted' = r.isMuted
           /\ evalCount' = evalCount + 1
           /\ saved' = Append(saved, payload)
           /\ saveStatus' = Append(saveStatus, Pending)
           /\ pendingNavRef' = NavState(payload)
           /\ analysing' = TRUE
           /\ navTimers' = navTimers + 1
           /\ triggers' = triggers \cup {"confirmEnd"}
           /\ lastCmd' = [NoCmd EXCEPT !.effects = confirmEndEffects,
                                       !.engineThrew = HasHandle /\ (mt \/ st)]
           /\ thrown' = FALSE
           /\ UNCHANGED <<error, transcript, callStartTime, autoStarted, vapiRef,
                          now, navigated, harnessVars, lookupVars>>
           /\ Commit(r.calls, curCall)

\* the effect cleanup when the page is discarded (useVapi.ts 117-119): it
\* exists when the effect made a handle, and calls vapi.stop() on it with
\* nothing around the call; st: stop throws
Unmounts == Mounted /\ HasHandle

\* a navigation timer fires (part_001 337-341, 443-447): the page leaves, and
\* the cleanup runs
\* the timer is held back until every save has settled
TimerReadyAfterSave ==
    /\ navTimers > 0
    /\ \A i \in DOMAIN saveStatus : saveStatus[i] # Pending

\* a timeout set at part_001 337 or 443 is due; nothing clears it
TimerReady == navTimers > 0

NavFire(st) ==
    /\ TimerReady
    /\ navTimers' = navTimers - 1
    /\ navigated' = Append(navigated, pendingNavRef)
    /\ calls' = (IF Unmounts /\ ~st THEN StopOn(calls, curCall) ELSE calls)
    /\ lastCmd' = [NoCmd EXCEPT !.stopAsked = Unmounts]
    /\ thrown' = (Unmounts /\ st)
    /\ UNCHANGED <<isCallActive, isMuted, isLoading, error, transcript, analysing,
                   callStartTime, showConfirm, autoStarted, pendingNavRef,
                   vapiRef, curCall, now, saved, saveStatus, evalCount, triggers, harnessVars, lookupVars>>

Next ==
    \/ Tick
    \/ AutoStart
    \/ ClickStart
    \/ \E k \in 1..Len(calls) : StartRejected(k)
    \/ \E k \in 1..Len(calls) : EngineCallStart(k)
    \/ \E k \in 1..Len(calls) : \E m \in SessionMessages : EngineMessage(k, m)
    \/ \E k \in 1..Len(calls) : EngineError(k)
    \/ \E k \in 1..Len(calls) : \E rnd \in SessionJitters : EngineCallEnd(k, rnd)
    \/ \E mt, st \in BOOLEAN : ForceStop(mt, st)
    \/ \E st \in BOOLEAN : StopCall(st)
    \/ \E mt \in BOOLEAN : ClickMute(mt)
    \/ ClickEnd
    \/ ClickContinue
    \/ \E mt, st \in BOOLEAN : \E rnd \in SessionJitters : ConfirmEnd(mt, st, rnd)
    \/ \E st \in BOOLEAN : NavFire(st)

Spec == Init /\ [][Next]_vars

\* --- the controller as any caller of the hook can drive it: startCall,
\* --- stopCall, forceStop and toggleMute at any time, the engine's events,
\* --- and the page leaving. The clock stands still: the time enters no
\* --- lifecycle command.
NextHook ==
    \/ AutoStart
    \/ ClickStart
    \/ StartCall
    \/ \E k \in 1..Len(calls) : StartRejected(k)
    \/ \E k \in 1..Len(calls) : EngineCallStart(k)
    \/ \E k \in 1..Len(calls) : \E m \in SessionMessages : EngineMessage(k, m)
    \/ \E k \in 1..Len(calls) : EngineError(k)
    \/ \E k \in 1..Len(calls) : \E rnd \in SessionJitters : EngineCallEnd(k, rnd)
    \/ \E mt, st \in BOOLEAN : ForceStop(mt, st)
    \/ \E st \in BOOLEAN : StopCall(st)
    \/ \E mt \in BOOLEAN : ToggleMute(mt)
    \/ \E st \in BOOLEAN : NavFire(st)

SpecHook == Init /\ [][NextHook]_vars

\* --- starting and starting again: the Start button within the bound on the
\* --- calls, the auto-start timer whenever its effect arms it (it fires once
\* --- per page: autoStarted), the engine's answers, the transcript and the
\* --- page leaving. The clock stands still.
NextStart ==
    \/ AutoStartTimer
    \/ ClickStart
    \/ \E k \in 1..Len(calls) : StartRejected(k)
    \/ \E k \in 1..Len(calls) : EngineCallStart(k)
    \/ \E k \in 1..Len(calls) : \E m \in SessionMessages : EngineMessage(k, m)
    \/ \E k \in 1..Len(calls) : EngineError(k)
    \/ \E k \in 1..Len(calls) : \E rnd \in SessionJitters : EngineCallEnd(k, rnd)
    \/ \E st \in BOOLEAN : NavFire(st)

SpecStart == Init /\ [][NextStart]_vars

\* --- the persistence request settles (part_001 321-325, 429): the .then of
\* --- onCallEnd sets nothing, the .catch of confirmEnd is empty, and a
\* --- rejection in onCallEnd has no handler at all. A request still in flight
\* --- when the page is left stays so: nothing of the page is there to see it
SaveSettles(i, outcome) ==
    /\ Mounted
    /\ saveStatus[i] = Pending
    /\ saveStatus' = [saveStatus EXCEPT ![i] = outcome]
    /\ UNCHANGED <<isCallActive, isMuted, isLoading, error, transcript, analysing,
                   callStartTime, showConfirm, autoStarted, pendingNavRef, vapiRef,
                   calls, curCall, now, navTimers, saved, navigated, evalCount,
                   triggers, lastCmd, thrown, harnessVars, lookupVars>>

\* --- getInterview (interview.service.ts 74-98), by what fetch did: a body
\* --- with data, a body without, a status that is not ok, or a rejection.
\* --- Every failure ends in the catch, which returns null.
OkWithData == "ok, data"
OkWithoutData == "ok, no data"
HttpError == "not ok"
NetworkError == "fetch rejected"
Responses == {OkWithData, OkWithoutData, HttpError, NetworkError}

getInterview(response) ==
    IF response = OkWithData THEN "data" ELSE "null"

PreInterview == "/pre-interview"

\* a failed lookup leaves the page where it is
afterLookupStay(data) ==
    [interview |-> data \notin {"null", "throws"}, redirect |-> FALSE]

\* the try of fetchInterview (part_001 356-367): data is what getInterview
\* returned, or "throws"
afterLookup(data) ==
    IF data \notin {"null", "throws"}
    THEN [interview |-> TRUE, redirect |-> FALSE]
    ELSE [interview |-> FALSE, redirect |-> TRUE]

\* --- the state after the first render and its effects of a page opened
\* --- with or without an id in the route and with or without an interview in
\* --- the navigation state (part_001 241-246, 352-373): without either, the
\* --- effect has already redirected; with an id alone the lookup is under way
InitPage ==
    /\ vapiRef \in {"null", "vapi"}
    /\ id \in BOOLEAN /\ interview \in BOOLEAN
    /\ loading = (~interview /\ id)
    /\ navigated = (IF ~id /\ ~interview THEN <<PreInterview>> ELSE <<>>)
    /\ isCallActive = FALSE /\ isMuted = FALSE /\ isLoading = FALSE
    /\ error = (IF vapiRef = "null" THEN ErrNotConfigured ELSE "null")
    /\ transcript = <<>>
    /\ analysing = FALSE /\ callStartTime = NoTime /\ showConfirm = FALSE
    /\ autoStarted = FALSE /\ pendingNavRef = "null"
    /\ calls = <<>> /\ curCall = 0
    /\ now = InitNow /\ navTimers = 0
    /\ saved = <<>> /\ saveStatus = <<>> /\ evalCount = 0 /\ triggers = {}
    /\ lastCmd = NoCmd /\ thrown = FALSE
    /\ eventLog = <<>>
    /\ evalEntries = <<>> /\ evalQc = 0 /\ evalRnd = <<>> /\ evaluation = NoEvaluation

\* --- the lookup settles (part_001 357-367). navigate and setLoading(false)
\* --- are batched into one render, which is the one that takes the page
\* --- down; the cleanup of useVapi.ts 117-119 then stops the handle (st: the
\* --- stop throws)
FetchSettles(response, st) ==
    /\ Mounted /\ loading
    /\ LET r == afterLookup(getInterview(response))
       IN  /\ interview' = r.interview
           /\ navigated' = (IF r.redirect THEN Append(navigated, PreInterview)
                            ELSE navigated)
           /\ lastCmd' = [NoCmd EXCEPT !.stopAsked = r.redirect /\ HasHandle]
           /\ thrown' = (r.redirect /\ HasHandle /\ st)
    /\ loading' = FALSE
    /\ UNCHANGED <<isCallActive, isMuted, isLoading, error, transcript, analysing,
                   callStartTime, showConfirm, autoStarted, pendingNavRef, vapiRef,
                   calls, curCall, now, navTimers, saved, saveStatus, evalCount,
                   triggers, id, harnessVars>>

\* --- the session as InterviewSession drives it: the page calls startCall,
\* --- toggleMute and forceStop (inside confirmEnd) only, and the save it
\* --- sent settles at any time or never. Spec leaves every request in
\* --- flight, as no handler reads its result. The clock stands still here:
\* --- Date.now() only enters the entries' timestamps and the duration that is
\* --- saved, and the 8000 ms of the two timeouts are the timer becoming due.
NextPage ==
    \/ \E response \in Responses : \E st \in BOOLEAN : FetchSettles(response, st)
    \/ AutoStart
    \/ ClickStart
    \/ \E k \in 1..Len(calls) : StartRejected(k)
    \/ \E k \in 1..Len(calls) : EngineCallStart(k)
    \/ \E k \in 1..Len(calls) : \E m \in SessionMessages : EngineMessage(k, m)
    \/ \E k \in 1..Len(calls) : EngineError(k)
    \/ \E k \in 1..Len(calls) : \E rnd \in SessionJitters : EngineCallEnd(k, rnd)
    \/ \E mt \in BOOLEAN : ClickMute(mt)
    \/ ClickEnd
    \/ ClickContinue
    \/ \E mt, st \in BOOLEAN : \E rnd \in SessionJitters : ConfirmEnd(mt, st, rnd)
    \/ \E i \in DOMAIN saveStatus : \E outcome \in {Resolved, Rejected} : SaveSettles(i, outcome)
    \/ \E st \in BOOLEAN : NavFire(st)

\* a timeout that was set fires: neither handler keeps its id and the page
\* never calls clearTimeout on it (part_001 337-341, 443-447)
SpecPage == InitPage /\ [][NextPage]_vars /\ WF_vars(\E st \in BOOLEAN : NavFire(st))

----------------------------------------------------------------------------
(* Properties of the session, under Spec *)

\* navigations to the results view scheduled so far: timers armed or fired
scheduled == navTimers + Len(navigated)

\* C1 as stated: when both the engine-reported call end (onCallEnd) and the
\* user-confirmed end (confirmEnd) have run in a session, the evaluation has
\* been computed once, saveInterviewResponse has been called exactly once and
\* navigation has been scheduled exactly once.
C1_Original ==
    {"onCallEnd", "confirmEnd"} \subseteq triggers =>
        /\ evalCount = 1
        /\ Len(saved) = 1
        /\ scheduled = 1

\* C2 as stated: whatever termination triggers have run, the persistence
\* gateway saveInterviewResponse has been called at most once.
C2_Original == Len(saved) <= 1

\* what forceStop is said to leave of the controller
ControllerState == <<isCallActive, isLoading, isMuted, transcript, error>>

\* C10: a call of forceStop propagates no error, whether or not the engine's
\* setMuted or stop throws, and leaves isCallActive, isLoading and isMuted
\* false and the transcript and the error as they were; a second call made
\* right after the first leaves the controller state exactly as the first did.
C10_Step ==
    lastCmd'.forceStops > 0 /\ lastCmd' # lastCmd =>
        /\ ~thrown'
        /\ ~isCallActive' /\ ~isLoading' /\ ~isMuted'
        /\ transcript' = transcript /\ error' = error
        /\ (lastCmd.forceStops > 0 => ControllerState' = ControllerState)

C10_ForceStopIdempotent == [][C10_Step]_vars

\* forceStop was called twice in a row on a session whose call had started
\* and had a transcript, and the engine threw during those calls
C10_Witness ==
    /\ lastCmd.forceStops = 2
    /\ lastCmd.engineThrew
    /\ HasHandle
    /\ callStartTime # NoTime
    /\ transcript # <<>>

\* a step in which forceStop was called
ForceStopStep == lastCmd'.forceStops > 0 /\ lastCmd' # lastCmd

\* a call has been placed and every call placed has ended: the controller
\* has seen the call end and is neither active nor connecting
SessionEnded ==
    /\ calls # <<>>
    /\ \A k \in 1..Len(calls) : calls[k].status = "ended"
    /\ ~isCallActive /\ ~isLoading

\* C11 as stated, for forceStop: the controller leaves Active once per
\* session, so a forceStop issued after the session has ended changes nothing
\* of the controller state and raises no error.
C11_OriginalStep ==
    (ForceStopStep /\ SessionEnded) =>
        /\ ControllerState' = ControllerState
        /\ ~thrown'

C11_Original == [][C11_OriginalStep]_vars

\* C12: forceStop invoked while Active invokes the engine's setMuted(true) and
\* stop() and leaves isCallActive and isLoading false in that same step: no
\* call-end is awaited or handled in it (no call changes status, onCallEnd
\* does not run). Afterwards isCallActive rises again only by the call-start
\* of a call that was connecting, so with no engine event it stays false.
C12_Step ==
    /\ (ForceStopStep /\ isCallActive) =>
          /\ lastCmd'.muteAsked /\ lastCmd'.stopAsked
          /\ ~isCallActive' /\ ~isLoading'
          /\ Len(calls') = Len(calls)
          /\ \A k \in 1..Len(calls) : calls'[k].status = calls[k].status
          /\ triggers' = triggers /\ evalCount' = evalCount
    /\ (~isCallActive /\ isCallActive') =>
          \E k \in 1..Len(calls) :
              calls[k].status = "starting" /\ calls'[k].status = "active"

C12_ForceStopEndsAtOnce == [][C12_Step]_vars

\* forceStop has just been called on an active call, whose call-end has not
\* arrived: the controller is ended while the call is not
C12_Witness ==
    /\ lastCmd.forceStops = 1
    /\ lastCmd.muteAsked /\ lastCmd.stopAsked
    /\ ~isCallActive /\ ~isLoading
    /\ callStartTime # NoTime
    /\ \E k \in 1..Len(calls) : calls[k].status = "active"

\* the step in which the page is discarded
Discarded == navigated = <<>> /\ navigated' # <<>>

\* C13 as stated: when the page is discarded the cleanup invokes the engine's
\* stop() on the handle, whatever state the session is in, and an error that
\* stop() raises does not leave the cleanup.
C13_OriginalStep ==
    (Discarded /\ HasHandle) =>
        /\ lastCmd'.stopAsked
        /\ ~thrown'

C13_Original == [][C13_OriginalStep]_vars

\* C14: with the engine credential missing no handle is made, the error shown
\* is the configuration error, and startCall does nothing: isLoading and
\* isCallActive stay false and no call is placed with the engine.
C14_NotConfigured ==
    ~HasHandle =>
        /\ error = ErrNotConfigured
        /\ ~isLoading /\ ~isCallActive
        /\ calls = <<>>

\* startCall has been invoked, by the auto-start timer, without a handle
C14_Witness == ~HasHandle /\ autoStarted /\ calls = <<>>

\* a step in which the engine's error reached the controller
EngineErrorStep == error' = ErrEngine /\ error # ErrEngine

\* C15 as stated: when the engine reports an error while the call is Active,
\* the controller is no longer Active afterwards, the error field holds the
\* reason, and no new call is placed in that step.
C15_OriginalStep ==
    (EngineErrorStep /\ isCallActive) =>
        /\ ~isCallActive'
        /\ error' = ErrEngine
        /\ Len(calls') = Len(calls)

C15_Original == [][C15_OriginalStep]_vars

\* C16: once a termination trigger holds the guard the page reaches the
\* results view, whether the save resolves, rejects or stays in flight; the
\* step in which a save settles touches neither the error state nor the
\* navigation, and the timer is due whatever the saves are doing
SaveSettled ==
    /\ Len(saveStatus') = Len(saveStatus)
    /\ saveStatus' # saveStatus

C16_Step ==
    SaveSettled =>
        /\ error' = error
        /\ navigated' = navigated
        /\ navTimers' = navTimers
        /\ analysing' = analysing

C16_NavigationNotBlocked ==
    /\ (analysing ~> navigated # <<>>)
    /\ []((analysing /\ Mounted) => ENABLED (\E st \in BOOLEAN : NavFire(st)))
    /\ [][C16_Step]_vars

C16_Witness ==
    /\ navigated # <<>>
    /\ Rejected \in Range(saveStatus)
    /\ error = "null"

\* C17: a page whose lookup failed (it has no interview and no lookup under
\* way) has gone to /pre-interview, and no call was placed on any of its
\* handles; a call is only ever placed by a page that holds an interview
LookupFailed == ~interview /\ ~loading

C17_LookupFailureRedirects ==
    /\ LookupFailed =>
          /\ navigated = <<PreInterview>>
          /\ calls = <<>>
          /\ ~isCallActive /\ ~isLoading /\ ~autoStarted
    /\ calls # <<>> => interview

C17_Witness ==
    /\ id /\ LookupFailed
    /\ navigated = <<PreInterview>>
    /\ vapiRef # "null"

----------------------------------------------------------------------------
(* More properties of the reconciler, under SpecReconcile *)

\* C21: a transcript event whose text is empty or only whitespace, partial or
\* final, leaves the transcript as it was: no entry is added and the pending
\* partial of its role keeps its place and its text.
C21_Step ==
    (Delivered /\ LastMessage.type = "transcript" /\ IsBlank(MessageText(LastMessage)))
        => transcript' = transcript

C21_BlankRejected == [][C21_Step]_vars

\* a blank event arrived while its role had a pending partial, which is
\* still there
C21_Witness ==
    /\ eventLog # <<>>
    /\ LastEvent.type = "transcript"
    /\ IsBlank(MessageText(LastEvent))
    /\ MessageText(LastEvent) # EmptyText
    /\ PartialIndexes(Before, MessageRole(LastEvent)) # {}
    /\ transcript = Before

\* an entry keeps the timestamp it was created with ({ ...updated[idx], text }),
\* and each event of the log is stamped later than the one before it: the
\* timestamp tells which entry of the old transcript an entry of the new one is
Stamps(tr) == {tr[i].timestamp : i \in 1..Len(tr)}
IndexOfStamp(tr, ts) == FindIndex({i \in 1..Len(tr) : tr[i].timestamp = ts})

\* C22: the transcript is the events of the log applied one after the other
\* in the order they were delivered, and an event never changes the relative
\* order of two entries that are there before and after it.
C22_Step ==
    Delivered =>
        \A i, j \in 1..Len(transcript) :
            (/\ i < j
             /\ transcript[i].timestamp \in Stamps(transcript')
             /\ transcript[j].timestamp \in Stamps(transcript'))
            => IndexOfStamp(transcript', transcript[i].timestamp)
                 < IndexOfStamp(transcript', transcript[j].timestamp)

C22_OrderKept ==
    /\ [](transcript = Replay(eventLog))
    /\ [][C22_Step]_vars

\* a final took a partial out from between two entries that both stayed
C22_Witness ==
    /\ eventLog # <<>>
    /\ Accepted(LastEvent) /\ MessageIsFinal(LastEvent)
    /\ \E idx \in PartialIndexes(Before, MessageRole(LastEvent)) :
          /\ 1 < idx /\ idx < Len(Before)
          /\ Before[idx - 1].timestamp \in Stamps(transcript)
          /\ Before[idx + 1].timestamp \in Stamps(transcript)

----------------------------------------------------------------------------
(* More properties of the session controller, under SpecHook *)

\* the step is a call of toggleMute
ToggleStep == lastCmd'.toggled

\* C23 as stated: toggleMute never changes the session state; when the
\* session is Active it flips the mute flag and sends the new value to the
\* engine, and when it is not Active it changes nothing and sends nothing.
C23_OriginalStep ==
    ToggleStep =>
        /\ UNCHANGED <<isCallActive, isLoading, error, transcript>>
        /\ isCallActive =>
              /\ isMuted' = ~isMuted
              /\ lastCmd'.muteAsked /\ lastCmd'.muteValue = ~isMuted
        /\ ~isCallActive =>
              /\ isMuted' = isMuted
              /\ ~lastCmd'.muteAsked

C23_Step ==
    ToggleStep =>
        /\ UNCHANGED <<isCallActive, isLoading, error, transcript>>
        /\ isCallActive =>
              /\ lastCmd'.muteAsked /\ lastCmd'.muteValue = ~isMuted
              /\ isMuted' = (IF lastCmd'.engineThrew THEN isMuted ELSE ~isMuted)
        /\ ~isCallActive =>
              /\ isMuted' = isMuted
              /\ ~lastCmd'.muteAsked /\ ~lastCmd'.engineThrew

C24_Step ==
    (ForceStopStep /\ HasHandle) =>
        /\ lastCmd'.muteAsked
        /\ lastCmd'.stopAsked
        /\ ~isCallActive' /\ ~isLoading' /\ ~isMuted'
        /\ ~thrown'

C24_ForceStopSuppresses == [][C24_Step]_vars

\* the engine threw during a forceStop on a live call: stop was still
\* invoked and the controller is ended
C24_Witness ==
    /\ lastCmd.forceStops = 1 /\ lastCmd.engineThrew
    /\ lastCmd.muteAsked /\ lastCmd.stopAsked
    /\ ~isCallActive /\ ~isLoading /\ ~isMuted /\ ~thrown
    /\ callStartTime # NoTime
    /\ \E k \in 1..Len(calls) : calls[k].status = "active"

\* startCall is invoked: by the auto-start timer, by the Start button or by
\* another caller of the hook
StartCommand == AutoStart \/ ClickStart \/ StartCall

\* the engine's "call-start" arrives for call k
CallStarted(k) == calls[k].status = "starting" /\ calls'[k].status = "active"

\* C25: startCall on a controller that has a handle and is neither active nor
\* connecting sets isLoading, clears the error and places a call on the
\* engine; the call-start of a call while the controller is connecting sets
\* isCallActive, clears isLoading and the error, and the page records the
\* instant as callStartTime.
C25_Step ==
    /\ (StartCommand /\ HasHandle /\ ~isCallActive /\ ~isLoading) =>
          /\ isLoading' /\ ~isCallActive'
          /\ error' = "null"
          /\ Len(calls') = Len(calls) + 1
          /\ calls'[Len(calls')].status = "starting"
    /\ \A k \in 1..Len(calls) :
          (CallStarted(k) /\ isLoading) =>
              /\ isCallActive' /\ ~isLoading'
              /\ error' = "null"
              /\ callStartTime' = now /\ callStartTime' # NoTime

C25_StartToActive == [][C25_Step]_vars

\* the call placed by startCall has started: the controller is active and
\* the start instant is recorded
C25_Witness ==
    /\ isCallActive /\ ~isLoading /\ error = "null"
    /\ callStartTime = InitNow
    /\ Len(calls) = 1 /\ calls[1].status = "active"
    /\ lastCmd = NoCmd /\ transcript = <<>> /\ ~isMuted

\* the engine's "error" arrives, or the promise of vapi.start() rejects
ErrorReported == \E k \in 1..Len(calls) : EngineError(k) \/ StartRejected(k)

\* C26: an engine error or a rejected start that arrives while the
\* controller is connecting leaves isLoading and isCallActive false and a
\* reason in the error field, and onError is called.
C26_Step ==
    (ErrorReported /\ isLoading) =>
        /\ ~isLoading' /\ ~isCallActive'
        /\ error' # "null"
        /\ lastCmd'.notified

C26_ConnectingFails == [][C26_Step]_vars

\* the engine reported an error for a call that was connecting
C26_Witness ==
    /\ lastCmd.notified
    /\ error = ErrEngine
    /\ ~isLoading /\ ~isCallActive
    /\ callStartTime = NoTime
    /\ \E k \in 1..Len(calls) : calls[k].status = "starting"

\* a caller asks the controller to stop, or the page is left
StopCommand ==
    \/ \E mt, st \in BOOLEAN : ForceStop(mt, st)
    \/ \E st \in BOOLEAN : StopCall(st)
    \/ \E mt, st \in BOOLEAN : \E rnd \in SessionJitters : ConfirmEnd(mt, st, rnd)
    \/ \E st \in BOOLEAN : NavFire(st)

\* the calls that are not over and were asked to stop in this step
NewStopRequests ==
    {k \in 1..Len(calls') :
        /\ calls'[k].status # "ended"
        /\ calls'[k].stopRequested
        /\ (k > Len(calls) \/ ~calls[k].stopRequested)}

\* C27 as stated: while a call is connecting or active the controller keeps
\* the handle the call was placed on (the current handle is that call's, so
\* every command reaches it) and, unless a caller asked for a stop or the
\* page is left, issues no stop to the engine.
C27_OriginalStep ==
    /\ ~StopCommand => NewStopRequests = {}
    /\ \A k \in 1..Len(calls') :
          calls'[k].status \in {"starting", "active"} => curCall' = k

C27_Original == [][C27_OriginalStep]_vars

----------------------------------------------------------------------------
(* Restarts, under SpecStart *)

\* the controller is neither active nor connecting and shows an error
SessionFailed == ~isCallActive /\ ~isLoading /\ error \in {ErrEngine, ErrStart}

\* vapi.start() is invoked in this step
StartInvoked == Len(calls') > Len(calls)

\* C28 as stated: once the session has failed or ended, the engine's start is
\* invoked again only by a start command of the user.
C28_OriginalStep ==
    ((SessionFailed \/ SessionEnded) /\ StartInvoked) => ClickStart

C28_Original == [][C28_OriginalStep]_vars

----------------------------------------------------------------------------
(* The user-confirmed end and the saved duration, under SpecPage *)

\* the user confirms the end of the interview
Confirmed == \E mt, st \in BOOLEAN : \E rnd \in SessionJitters : ConfirmEnd(mt, st, rnd)

\* where x stands among the effects e of a handler (0: it does not)
EffectIndex(e, x) == FindIndex({i \in 1..Len(e) : e[i] = x})
Precedes(e, x, y) == EffectIndex(e, x) > 0 /\ EffectIndex(e, x) < EffectIndex(e, y)

\* C29: in confirmEnd with a handle, the engine's setMuted and stop are
\* invoked and the controller is marked ended before the evaluation is
\* computed, the save is sent or the navigation timer is set; and the
\* evaluation, the save and the timer take place whether or not the engine
\* threw during the forceStop, with nothing thrown to the caller.
C29_Step ==
    Confirmed =>
        LET e == lastCmd'.effects
        IN  /\ HasHandle =>
                  \A x \in {"setMuted", "stop", "setIsCallActive"} :
                      \A y \in {"evaluate", "save", "setTimeout"} : Precedes(e, x, y)
            /\ HasHandle => ~isCallActive' /\ ~isLoading'
            /\ evalCount' = evalCount + 1
            /\ Len(saved') = Len(saved) + 1
            /\ navTimers' = navTimers + 1
            /\ analysing'
            /\ ~thrown'

C29_ForceStopFirst == [][C29_Step]_vars

\* the end was confirmed on an active call and the engine threw during the
\* forceStop: the save was sent and the timer set all the same
C29_Witness ==
    /\ lastCmd.effects # <<>> /\ lastCmd.engineThrew
    /\ "confirmEnd" \in triggers
    /\ analysing /\ navTimers = 1 /\ Len(saved) = 1
    /\ ~isCallActive
    /\ callStartTime # NoTime

----------------------------------------------------------------------------
(* The saved duration, under Spec *)

\* saveInterviewResponse is called in this step
SaveSent == Len(saved') = Len(saved) + 1

\* the whole seconds from the recorded call start to now
ElapsedSeconds == IF callStartTime = NoTime THEN 0 ELSE (now - callStartTime) \div 1000

\* C30 as stated: on either termination path the duration handed to the save
\* is the whole seconds elapsed since the call start the page recorded, and 0
\* when no call start was recorded.
C30_OriginalStep ==
    SaveSent => saved'[Len(saved')].duration = ElapsedSeconds

C30_Original == [][C30_OriginalStep]_vars

----------------------------------------------------------------------------
(* What is saved and what is carried to the results view, under Spec *)

\* the lines the final entries of a transcript give, in transcript order:
\* "Interviewer: <text>" for the assistant and "You: <text>" for the user
RECURSIVE LinesOfFinals(_)
LinesOfFinals(tr) ==
    IF tr = <<>> THEN <<>>
    ELSE LET e == Head(tr)
             label == IF e.role = "assistant" THEN "Interviewer:" ELSE "You:"
         IN  (IF e.isFinal THEN <<(<<label, " ">> \o e.text)>> ELSE <<>>)
             \o LinesOfFinals(Tail(tr))

\* C31 as stated: the lines handed to the save and put in the navigation
\* payload are exactly the lines of the final entries of the transcript at
\* the time of the termination trigger, on both paths.
C31_OriginalStep ==
    SaveSent =>
        /\ saved'[Len(saved')].fullTranscript = LinesOfFinals(transcript)
        /\ pendingNavRef'.transcript = LinesOfFinals(transcript)

C31_Original == [][C31_OriginalStep]_vars

----------------------------------------------------------------------------
(* The controller after forceStop, under SpecHook *)

\* forceStop was the last command and the engine took its setMuted(true) and
\* its stop() without an error
JustForceStopped ==
    lastCmd.forceStops > 0 /\ lastCmd.stopAsked /\ ~lastCmd.engineThrew

\* C34 as stated: after forceStop the controller is not Active again before a
\* new startCall; here for the first step after forceStop: unless that step
\* is a start command, isCallActive is false after it, also when the step is
\* the call-start event of the call that was stopped while Connecting.
C34_OriginalStep ==
    (JustForceStopped /\ ~StartCommand) => ~isCallActive'

C34_Original == [][C34_OriginalStep]_vars

\* the controller is Connecting (an engine start is in flight and no
\* call-start has been received) or Active
ConnectingOrActive == isLoading \/ isCallActive

\* C35 as stated: while the controller is Connecting or Active no step invokes
\* the engine's start: no call is placed beyond those already placed.
C35_OriginalStep ==
    ConnectingOrActive => Len(calls') = Len(calls)

C35_Original == [][C35_OriginalStep]_vars

\* C36 as stated, for its second half: whenever a call becomes Active the
\* exposed isMuted flag is false: no setMuted has been sent to the engine for
\* the new call, and the flag of a call that ended while muted is not kept.
C36_OriginalStep ==
    (~isCallActive /\ isCallActive') => ~isMuted'

C36_Original == [][C36_OriginalStep]_vars

----------------------------------------------------------------------------
(* The navigation payload, under SpecPage *)

\* a navigation has been scheduled and has not fired
NavigationPending == navTimers > 0 /\ Mounted

\* the delayed navigation fires
NavigationFires == navTimers' < navTimers

\* C37 as stated: while a navigation is scheduled and has not fired no step
\* writes the payload again, and when it fires the payload carries the
\* transcript lines and the evaluation of every saveInterviewResponse call of
\* the session.
C37_OriginalStep ==
    /\ (NavigationPending /\ ~NavigationFires) => pendingNavRef' = pendingNavRef
    /\ NavigationFires =>
          \A i \in 1..Len(saved) :
              navigated'[Len(navigated')] = NavState(saved[i])

C37_Original == [][C37_OriginalStep]_vars

====
